---- MODULE Spec2Model ----
(***************************************************************************)
(* Model of the cpio archive engine of magiskboot                          *)
(* (native/src/boot/cpio.rs): the newc parser (load_from_data), the        *)
(* serializer (dump), the entry operations (rm, mv, mkdir, ln, add,        *)
(* exists, ls, extract) and the command dispatcher (cpio_commands).        *)
(*                                                                         *)
(* A byte is a one-character string; NUL stands for the byte 0 and         *)
(* BadByte for the byte 0xff (never part of valid UTF-8).  A byte string   *)
(* (a name, a payload, an archive image) is a sequence of bytes.           *)
(***************************************************************************)
EXTENDS Integers, Sequences, FiniteSets, TLC

VARIABLES
    file,     \* the archive file: Absent, or its bytes (the buffer being parsed)
    cpio,     \* Cpio.entries: the map path -> CpioEntry
    pc,       \* where the session (or the parse loop) stands
    pos,      \* load_from_data's cursor
    oob,      \* TRUE once a read past the end of the buffer has happened
    status,   \* the process' exit status, -1 while none
    i,        \* number of sub-commands taken from argv so far
    cmd,      \* the sub-command dispatched last
    prev,     \* cpio as it was before the last sub-command
    dumps,    \* number of calls of dump
    stdout,   \* the lines printed by ls
    input     \* how the initial file / buffer was built (history)

vars == <<file, cpio, pc, pos, oob, status, i, cmd, prev, dumps, stdout, input>>

-----------------------------------------------------------------------------
(* Bytes *)

NUL == "NUL"
BadByte == "xFF"

Printable ==
    << " ", "!", "\"", "#", "$", "%", "&", "'", "(", ")", "*", "+", ",", "-", ".", "/",
       "0", "1", "2", "3", "4", "5", "6", "7", "8", "9", ":", ";", "<", "=", ">", "?",
       "@", "A", "B", "C", "D", "E", "F", "G", "H", "I", "J", "K", "L", "M", "N", "O",
       "P", "Q", "R", "S", "T", "U", "V", "W", "X", "Y", "Z", "[", "\\", "]", "^", "_",
       "GRAVE", "a", "b", "c", "d", "e", "f", "g", "h", "i", "j", "k", "l", "m", "n", "o",
       "p", "q", "r", "s", "t", "u", "v", "w", "x", "y", "z", "{", "|", "}", "~" >>

\* The value of a byte: the order of String keys in the BTreeMap is the
\* lexicographic order of their bytes.
Code(c) ==
    IF c = NUL THEN 0
    ELSE IF c = BadByte THEN 255
    ELSE 31 + (CHOOSE k \in 1..Len(Printable) : Printable[k] = c)

HexChars == <<"0", "1", "2", "3", "4", "5", "6", "7",
              "8", "9", "a", "b", "c", "d", "e", "f">>
UpperHexChars == <<"0", "1", "2", "3", "4", "5", "6", "7",
                   "8", "9", "A", "B", "C", "D", "E", "F">>

Zeros(n) == [k \in 1..n |-> NUL]

\* s[from..] of Rust (0-based, from <= Len(s))
Tail0(s, from) == SubSeq(s, from + 1, Len(s))

\* str::starts_with
StartsWith(s, p) == Len(p) <= Len(s) /\ SubSeq(s, 1, Len(p)) = p

\* str::ends_with
EndsWith(s, p) == Len(p) <= Len(s) /\ SubSeq(s, Len(s) - Len(p) + 1, Len(s)) = p

\* Ord for str: byte-wise lexicographic
RECURSIVE StrLess(_, _)
StrLess(a, b) ==
    IF b = <<>> THEN FALSE
    ELSE IF a = <<>> THEN TRUE
    ELSE IF Code(a[1]) # Code(b[1]) THEN Code(a[1]) < Code(b[1])
    ELSE StrLess(Tail(a), Tail(b))

RECURSIVE BitOr(_, _)
BitOr(a, b) ==
    IF a = 0 THEN b
    ELSE IF b = 0 THEN a
    ELSE (IF a % 2 = 1 \/ b % 2 = 1 THEN 1 ELSE 0) + 2 * BitOr(a \div 2, b \div 2)

RECURSIVE BitAnd(_, _)
BitAnd(a, b) ==
    IF a = 0 \/ b = 0 THEN 0
    ELSE (IF a % 2 = 1 /\ b % 2 = 1 THEN 1 ELSE 0) + 2 * BitAnd(a \div 2, b \div 2)

-----------------------------------------------------------------------------
(* libc file type bits *)

S_IFMT  == 61440   \* 0o170000
S_IFDIR == 16384   \* 0o040000
S_IFREG == 32768   \* 0o100000
S_IFLNK == 40960   \* 0o120000
S_IFBLK == 24576   \* 0o060000
S_IFCHR == 8192    \* 0o020000

-----------------------------------------------------------------------------
(* Helpers of cpio.rs *)

\* (x + 4) & !3: rounds an aligned offset up to the next multiple
align_4_PastAligned(x) == ((x + 4) \div 4) * 4

\* fn align_4(x) = (x + 3) & !3
align_4(x) == ((x + 3) \div 4) * 4

\* norm_path without the strip_suffix
norm_path_KeepsTrailing(path) ==
    IF StartsWith(path, <<"/">>) THEN Tail(path) ELSE path

\* fn norm_path: strip one leading slash, then one trailing slash
norm_path(path) ==
    LET p1 == IF StartsWith(path, <<"/">>) THEN Tail(path) ELSE path
    IN  IF EndsWith(p1, <<"/">>) THEN SubSeq(p1, 1, Len(p1) - 1) ELSE p1

\* char::to_digit(16): -1 stands for None
to_digit16(c) ==
    IF \E k \in 1..16 : HexChars[k] = c
    THEN (CHOOSE k \in 1..16 : HexChars[k] = c) - 1
    ELSE IF \E k \in 1..16 : UpperHexChars[k] = c
    THEN (CHOOSE k \in 1..16 : UpperHexChars[k] = c) - 1
    ELSE -1

\* ret * 16 + v in the u32 accumulator of x8u (ret < 2^28: at most 7 digits
\* read).  The integers at hand are 32 bits wide with a sign: a u32 of 2^31 or
\* more is held as the negative number u - 2^32, its two's complement reading.
Shl4Add(ret, v) ==
    IF ret < 134217728 THEN ret * 16 + v
    ELSE ((ret - 134217728) * 16 + v - 2147483647) - 1

\* fn x8u: the value of 8 hex digits; [ok |-> FALSE] is Err("bad cpio header").
\* Eight digits never overflow the u32 accumulator, and the conversion of the
\* u32 to usize, mode_t, uid_t, gid_t or dev_t cannot fail where these are at
\* least 32 bits wide.
RECURSIVE x8uAcc(_, _)
x8uAcc(x, ret) ==
    IF x = <<>> THEN [ok |-> TRUE, v |-> ret]
    ELSE IF to_digit16(x[1]) < 0 THEN [ok |-> FALSE, v |-> 0]
    ELSE x8uAcc(Tail(x), Shl4Add(ret, to_digit16(x[1])))

x8u(x) == x8uAcc(x, 0)

\* format!("{:08x}", n): the hex digits of n, zero-padded on the left to a
\* minimum width of 8 (a value of more than 8 digits is written in full)
RECURSIVE HexDigits(_)
HexDigits(n) ==
    IF n < 16 THEN <<HexChars[n + 1]>>
    ELSE Append(HexDigits(n \div 16), HexChars[(n % 16) + 1])

\* {:x}: the hex digits without the padding
Hex08_NoPad(n) == HexDigits(n)

Hex08(n) ==
    LET d == HexDigits(n)
    IN  IF Len(d) >= 8 THEN d ELSE [k \in 1..(8 - Len(d)) |-> "0"] \o d

-----------------------------------------------------------------------------
(* Cpio: the archive *)

\* struct CpioEntry
CpioEntry(mode, uid, gid, rdevmajor, rdevminor, data) ==
    [mode |-> mode, uid |-> uid, gid |-> gid,
     rdevmajor |-> rdevmajor, rdevminor |-> rdevminor, data |-> data]

\* Cpio::new: the empty BTreeMap
NewCpio == <<>>

\* BTreeMap::insert: insert or replace
Insert(entries, key, entry) ==
    [k \in DOMAIN entries \cup {key} |-> IF k = key THEN entry ELSE entries[k]]

\* BTreeMap::remove / retain: the map without the keys in gone
Without(entries, gone) == [k \in DOMAIN entries \ gone |-> entries[k]]

\* the keys in descending order
RECURSIVE SortedKeys_Descending(_)
SortedKeys_Descending(S) ==
    IF S = {} THEN <<>>
    ELSE LET m == CHOOSE k \in S : \A o \in S \ {k} : StrLess(o, k)
         IN  <<m>> \o SortedKeys_Descending(S \ {m})

\* The keys in the iteration order of the BTreeMap (ascending)
RECURSIVE SortedKeys(_)
SortedKeys(S) ==
    IF S = {} THEN <<>>
    ELSE LET m == CHOOSE k \in S : \A o \in S \ {k} : StrLess(k, o)
         IN  <<m>> \o SortedKeys(S \ {m})

-----------------------------------------------------------------------------
(* Serialization: Cpio::dump *)

Magic == <<"0", "7", "0", "7", "0", "1">>
Trailer == <<"T", "R", "A", "I", "L", "E", "R", "!", "!", "!">>
Dot == <<".">>
DotDot == <<".", ".">>

\* The format! of a header: the magic and the 13 fields f, each {:08x}
RECURSIVE HexFields(_)
HexFields(f) == IF f = <<>> THEN <<>> ELSE Hex08(f[1]) \o HexFields(Tail(f))

HeaderBytes(f) == Magic \o HexFields(f)

\* file.write_zeros(align_4(pos) - pos), where pos is the number of bytes
\* written so far
PadTo4(out) == out \o Zeros(align_4(Len(out)) - Len(out))

\* One iteration of dump's loop: header, name, NUL, padding, payload, padding
DumpEntry(out, inode, name, entry) ==
    LET hdr == HeaderBytes(<<inode, entry.mode, entry.uid, entry.gid, 1, 0,
                             Len(entry.data), 0, 0,
                             entry.rdevmajor, entry.rdevminor, Len(name) + 1, 0>>)
        named == PadTo4(out \o hdr \o name \o <<NUL>>)
    IN  PadTo4(named \o entry.data)

\* The trailer record written after the loop (mode 0o755, name size 11)
DumpTrailer(out, inode) ==
    PadTo4(out \o HeaderBytes(<<inode, 493, 0, 0, 1, 0, 0, 0, 0, 0, 0, 11, 0>>)
               \o Trailer \o <<NUL>>)

RECURSIVE DumpFrom(_, _, _, _)
DumpFrom(keys, entries, out, inode) ==
    IF keys = <<>> THEN DumpTrailer(out, inode)
    ELSE DumpFrom(Tail(keys), entries,
                  DumpEntry(out, inode, keys[1], entries[keys[1]]), inode + 1)

\* Cpio::dump: the bytes written to the file
Dump(entries) == DumpFrom(SortedKeys(DOMAIN entries), entries, <<>>, 300000)

-----------------------------------------------------------------------------
(* Parsing: Cpio::load_from_data *)

\* size_of::<CpioHeader>(): the magic and 13 fields of 8 digits
HeaderSize == 110

\* The k-th 8-byte field (k = 0 is ino) of the header at offset p
HdrField(data, p, k) == SubSeq(data, p + 6 + 8 * k + 1, p + 6 + 8 * k + 8)

\* CStr::from_bytes_until_nul(&data[p..]): the index (1-based, in data) of the
\* first NUL at or after offset p, 0 when there is none
FirstNul(data, p) ==
    IF \E k \in (p + 1)..Len(data) : data[k] = NUL
    THEN CHOOSE k \in (p + 1)..Len(data) :
            data[k] = NUL /\ \A j \in (p + 1)..(k - 1) : data[j] # NUL
    ELSE 0

\* CStr::to_str: the bytes are valid UTF-8.  Every byte of the model's alphabet
\* but BadByte (0xff) is ASCII.
Utf8Valid(name) == \A k \in 1..Len(name) : Code(name[k]) < 128

\* a resynchronization that looks for the magic at the cursor only
MagicPosition_AtCursorOnly(data, p) ==
    IF p + 6 <= Len(data) /\ SubSeq(data, p + 1, p + 6) = Magic THEN 0 ELSE -1

\* data[p..].windows(6).position(|x| x == b"070701"): -1 stands for None
MagicPosition(data, p) ==
    LET hits == {x \in 0..(Len(data) - p - 6) : SubSeq(data, p + x + 1, p + x + 6) = Magic}
    IN  IF hits = {} THEN -1 ELSE CHOOSE x \in hits : \A y \in hits : x <= y

\* The builds of the program that differ in usize arithmetic: usize of 64 bits
\* (no sum of the parser overflows), usize of 32 bits with overflow checks
\* (an overflowing sum panics) and usize of 32 bits without them (the release
\* profile: an overflowing sum wraps modulo 2^32)
Builds == {"usize64", "usize32_checked", "usize32_wrapping"}

\* the cursor once it is 2^31 or more: past the end of every buffer, and
\* nothing the parser does then depends on its value
Beyond == 1073741824

\* cursor > data.len(), the cursor held as described at Beyond
PastEnd(p, len) == p > len

\* pos += namesize; pos = align_4(pos), with pos = p (at most the length of the
\* buffer plus 110) and namesize = n as x8u holds it (negative for 2^31 or
\* more).  [ok |-> FALSE] is the panic of an overflow check.  With a usize of
\* 32 bits the sum p + n, or the x + 3 of align_4, passes 2^32 exactly when,
\* read with the sign, p + n is at least -3; the wrapped result is then
\* align_4 of that number.
Advance(p, n, build) ==
    IF n >= 0 THEN [ok |-> TRUE, v |-> align_4(p + n)]
    ELSE IF build = "usize64" \/ p + n < -3 THEN [ok |-> TRUE, v |-> Beyond]
    ELSE IF build = "usize32_wrapping" THEN [ok |-> TRUE, v |-> align_4(p + n)]
    ELSE [ok |-> FALSE, v |-> p]

ParseResult(st, p, entries, o) == [st |-> st, pos |-> p, cpio |-> entries, oob |-> o]

\* One iteration of the while loop of load_from_data, entered with
\* p < Len(data).  st is "loop" (next iteration), "ok" (break), "err" (an Err
\* is returned) or "panic" (a slice index out of range).  The header is read
\* through a raw pointer: when fewer than 6 bytes are left the comparison of
\* the magic reads past the end of the buffer (oob), and whether the bytes
\* found there complete the magic is not determined by the program: ubMatch.
\* build is the usize arithmetic of the program (see Builds).
ParseIter(data, p, entries, ubMatch, build) ==
    LET len == Len(data)
        magicOob == p + 6 > len
        magicOk == IF magicOob
                   THEN ubMatch /\ SubSeq(data, p + 1, len) = SubSeq(Magic, 1, len - p)
                   ELSE SubSeq(data, p + 1, p + 6) = Magic
        p1 == p + HeaderSize
        nul == FirstNul(data, p1)
        name == SubSeq(data, p1 + 1, nul - 1)
        namesize == x8u(HdrField(data, p, 11))
        adv == Advance(p1, namesize.v, build)
        p2 == adv.v
        found == MagicPosition(data, p2)
        file_size == x8u(HdrField(data, p, 6))
        mode == x8u(HdrField(data, p, 1))
        uid == x8u(HdrField(data, p, 2))
        gid == x8u(HdrField(data, p, 3))
        rdevmajor == x8u(HdrField(data, p, 9))
        rdevminor == x8u(HdrField(data, p, 10))
        entry == CpioEntry(mode.v, uid.v, gid.v, rdevmajor.v, rdevminor.v,
                           SubSeq(data, p2 + 1, p2 + file_size.v))
    IN  IF ~magicOk THEN ParseResult("err", p, entries, magicOob)
        ELSE IF p1 > len THEN ParseResult("panic", p1, entries, magicOob)
        ELSE IF nul = 0 \/ ~Utf8Valid(name) THEN ParseResult("err", p1, entries, FALSE)
        ELSE IF ~namesize.ok THEN ParseResult("err", p1, entries, FALSE)
        ELSE IF ~adv.ok THEN ParseResult("panic", p1, entries, FALSE)
        ELSE IF name = Dot \/ name = DotDot THEN ParseResult("loop", p2, entries, FALSE)
        ELSE IF name = Trailer
             THEN IF PastEnd(p2, len) THEN ParseResult("panic", p2, entries, FALSE)
                  ELSE IF found < 0 THEN ParseResult("ok", p2, entries, FALSE)
                  ELSE ParseResult("loop", p2 + found, entries, FALSE)
        ELSE IF ~(file_size.ok /\ mode.ok /\ uid.ok /\ gid.ok /\ rdevmajor.ok /\ rdevminor.ok)
             THEN ParseResult("err", p2, entries, FALSE)
        ELSE IF file_size.v < 0 \/ PastEnd(p2 + file_size.v, len)
             THEN ParseResult("panic", p2, entries, FALSE)
        ELSE ParseResult("loop", align_4(p2 + file_size.v), Insert(entries, name, entry), FALSE)

RECURSIVE LoadLoop(_, _, _, _, _)
LoadLoop(data, p, entries, ubMatch, build) ==
    IF p >= Len(data) THEN ParseResult("ok", p, entries, FALSE)
    ELSE LET r == ParseIter(data, p, entries, ubMatch, build)
         IN  IF r.st = "loop" THEN LoadLoop(data, r.pos, r.cpio, ubMatch, build) ELSE r

\* Cpio::load_from_data: st is "ok" (Ok(cpio)), "err" or "panic"
load_from_data(data, ubMatch, build) == LoadLoop(data, 0, NewCpio, ubMatch, build)

-----------------------------------------------------------------------------
(* Entry operations *)

\* rm matching the bare prefix, without the separator
Rm_PrefixWithoutSeparator(entries, path, recursive) ==
    LET p == norm_path(path)
        e1 == Without(entries, {p})
    IN  IF recursive
        THEN Without(e1, {k \in DOMAIN e1 : StartsWith(k, p)})
        ELSE e1

\* rm ignoring its recursive flag
Rm_AlwaysRecursive(entries, path, recursive) ==
    LET p == norm_path(path)
        e1 == Without(entries, {p})
    IN  Without(e1, {k \in DOMAIN e1 : StartsWith(k, p \o <<"/">>)})

\* Cpio::rm
Rm(entries, path, recursive) ==
    LET p == norm_path(path)
        e1 == Without(entries, {p})
    IN  IF recursive
        THEN Without(e1, {k \in DOMAIN e1 : StartsWith(k, p \o <<"/">>)})
        ELSE e1

\* Cpio::exists
Exists(entries, path) == norm_path(path) \in DOMAIN entries

\* Cpio::mkdir
Mkdir(entries, mode, dir) ==
    Insert(entries, norm_path(dir), CpioEntry(BitOr(mode, S_IFDIR), 0, 0, 0, 0, <<>>))

\* Cpio::ln
Ln(entries, src, dst) ==
    Insert(entries, norm_path(dst), CpioEntry(S_IFLNK, 0, 0, 0, 0, norm_path(src)))

\* mv that inserts without removing the source
Mv_KeepsSource(entries, from, to) ==
    IF norm_path(from) \notin DOMAIN entries
    THEN [ok |-> FALSE, cpio |-> entries]
    ELSE [ok |-> TRUE,
          cpio |-> Insert(entries, norm_path(to), entries[norm_path(from)])]

\* Cpio::mv: ok is FALSE for Err("no such entry")
Mv(entries, from, to) ==
    IF norm_path(from) \notin DOMAIN entries
    THEN [ok |-> FALSE, cpio |-> entries]
    ELSE [ok |-> TRUE,
          cpio |-> Insert(Without(entries, {norm_path(from)}), norm_path(to),
                          entries[norm_path(from)])]

\* Cpio::add.  f is the file named by the <infile> argument as the file system
\* shows it: kind is "reg", "blk", "chr", "fifo" (any other type) or "missing"
\* (read fails), content what read returns, major and minor its device numbers.
Add(entries, mode, path, f) ==
    IF EndsWith(path, <<"/">>) THEN [ok |-> FALSE, cpio |-> entries]
    ELSE IF f.kind = "missing" THEN [ok |-> FALSE, cpio |-> entries]
    ELSE IF f.kind = "reg"
         THEN [ok |-> TRUE,
               cpio |-> Insert(entries, norm_path(path),
                               CpioEntry(BitOr(mode, S_IFREG), 0, 0, 0, 0, f.content))]
    ELSE IF f.kind = "blk"
         THEN [ok |-> TRUE,
               cpio |-> Insert(entries, norm_path(path),
                               CpioEntry(BitOr(mode, S_IFBLK), 0, 0, f.major, f.minor, f.content))]
    ELSE IF f.kind = "chr"
         THEN [ok |-> TRUE,
               cpio |-> Insert(entries, norm_path(path),
                               CpioEntry(BitOr(mode, S_IFCHR), 0, 0, f.major, f.minor, f.content))]
    ELSE [ok |-> FALSE, cpio |-> entries]

\* Display for CpioEntry, up to the owner columns: the type character and the
\* nine permission characters
TypeChar(mode) ==
    LET t == BitAnd(mode, S_IFMT)
    IN  IF t = S_IFDIR THEN "d"
        ELSE IF t = S_IFREG THEN "-"
        ELSE IF t = S_IFLNK THEN "l"
        ELSE IF t = S_IFBLK THEN "b"
        ELSE IF t = S_IFCHR THEN "c"
        ELSE "?"

PermChars(mode) ==
    [k \in 1..9 |->
        IF BitAnd(mode, 2 ^ (9 - k)) # 0 THEN <<"r", "w", "x">>[((k - 1) % 3) + 1] ELSE "-"]

\* One line of ls: the entry as Display renders it (the size is kept as the
\* number of bytes) and the name
LsLine(name, entry) ==
    [perm |-> <<TypeChar(entry.mode)>> \o PermChars(entry.mode),
     uid |-> entry.uid, gid |-> entry.gid, size |-> Len(entry.data),
     rdev |-> <<entry.rdevmajor, entry.rdevminor>>, name |-> name]

\* The number of '/' in p: p.matches('/').count()
RECURSIVE CountSlash(_)
CountSlash(p) ==
    IF p = <<>> THEN 0 ELSE (IF p[1] = "/" THEN 1 ELSE 0) + CountSlash(Tail(p))

\* The filter of Cpio::ls: whether the entry called name is printed
LsShows(name, path, recursive) ==
    LET np == norm_path(path)
        prefix == IF np = <<>> THEN np ELSE <<"/">> \o np
        full == <<"/">> \o name
        rest == Tail0(full, Len(prefix))
    IN  /\ StartsWith(full, prefix)
        /\ rest = <<>> \/ rest[1] = "/"
        /\ recursive \/ rest = <<>> \/ CountSlash(rest) <= 1

RECURSIVE LsFrom(_, _, _, _)
LsFrom(keys, entries, path, recursive) ==
    IF keys = <<>> THEN <<>>
    ELSE (IF LsShows(keys[1], path, recursive)
          THEN <<LsLine(keys[1], entries[keys[1]])>> ELSE <<>>)
         \o LsFrom(Tail(keys), entries, path, recursive)

\* Cpio::ls: the lines printed, in key order
Ls(entries, path, recursive) ==
    LsFrom(SortedKeys(DOMAIN entries), entries, path, recursive)

\* Cpio::extract_entry: whether it returns Ok.  ioOk: the file system calls
\* (create directory, create file, symlink) succeed.
ExtractEntry(entries, path, ioOk) ==
    /\ path \in DOMAIN entries
    /\ ioOk
    /\ LET t == BitAnd(entries[path].mode, S_IFMT)
       IN  \/ t \in {S_IFDIR, S_IFREG, S_IFBLK, S_IFCHR}
           \/ t = S_IFLNK /\ Utf8Valid(entries[path].data)

\* Cpio::extract: whether it returns Ok.  paths is <<>> or <<path, out>>.
Extract(entries, paths, ioOk) ==
    IF Len(paths) = 2
    THEN ExtractEntry(entries, norm_path(paths[1]), ioOk)
    ELSE \A k \in DOMAIN entries \ {Dot, DotDot} : ExtractEntry(entries, k, ioOk)

-----------------------------------------------------------------------------
(* The command dispatcher: cpio_commands *)

\* The structs argh fills from the words of one sub-command.  The first
\* positional of ln (arg_name "entry") is the field src, the second (arg_name
\* "target") is dst.
TestCmd(result) == [op |-> "test", result |-> result]
RestoreCmd(fails) == [op |-> "restore", fails |-> fails]
PatchCmd == [op |-> "patch"]
BackupCmd(origin, fails) == [op |-> "backup", origin |-> origin, fails |-> fails]
ExistsCmd(path) == [op |-> "exists", path |-> path]
RemoveCmd(path, recursive) == [op |-> "rm", path |-> path, recursive |-> recursive]
MoveCmd(from, to) == [op |-> "mv", from |-> from, to |-> to]
ExtractCmd(paths, ioOk) == [op |-> "extract", paths |-> paths, ioOk |-> ioOk]
MakeDirCmd(mode, dir) == [op |-> "mkdir", mode |-> mode, dir |-> dir]
LinkCmd(first, second) == [op |-> "ln", src |-> first, dst |-> second]
AddCmd(mode, path, f) == [op |-> "add", mode |-> mode, path |-> path, file |-> f]
ListCmd(path, recursive) == [op |-> "ls", path |-> path, recursive |-> recursive]
\* a line starting with '#'
CommentCmd == [op |-> "comment"]
\* argh's EarlyExit: --help (status Ok) or words it cannot parse (status Err)
HelpCmd == [op |-> "help"]
BadCmd == [op |-> "bad"]
NoCmd == [op |-> "none"]

Outcome(next, entries, st, out) ==
    [pc |-> next, cpio |-> entries, status |-> st, stdout |-> out]

\* an exit that returns to the loop
Exit_Returns(entries, st, out) == Outcome("run", entries, st, out)
\* std::process::exit(st): the session ends here, nothing after it runs
Exit(entries, st, out) == Outcome("exit", entries, st, out)

\* One iteration of the for loop over the sub-commands: "run" goes on to the
\* next sub-command, "exit" is exit(status), "failed" returns the Err.
Dispatch(entries, c) ==
    CASE c.op = "comment" -> Outcome("run", entries, -1, <<>>)
      [] c.op = "help" -> Exit(entries, 0, <<>>)
      [] c.op = "bad" -> Outcome("failed", entries, -1, <<>>)
      [] c.op = "test" -> Exit(entries, c.result, <<>>)
      [] c.op = "restore" ->
            Outcome(IF c.fails THEN "failed" ELSE "run", entries, -1, <<>>)
      [] c.op = "patch" -> Outcome("run", entries, -1, <<>>)
      [] c.op = "backup" ->
            Outcome(IF c.fails THEN "failed" ELSE "run", entries, -1, <<>>)
      [] c.op = "exists" ->
            Exit(entries, IF Exists(entries, c.path) THEN 0 ELSE 1, <<>>)
      [] c.op = "rm" -> Outcome("run", Rm(entries, c.path, c.recursive), -1, <<>>)
      [] c.op = "mv" ->
            LET r == Mv(entries, c.from, c.to)
            IN  Outcome(IF r.ok THEN "run" ELSE "failed", r.cpio, -1, <<>>)
      [] c.op = "mkdir" -> Outcome("run", Mkdir(entries, c.mode, c.dir), -1, <<>>)
      [] c.op = "ln" -> Outcome("run", Ln(entries, c.src, c.dst), -1, <<>>)
      [] c.op = "add" ->
            LET r == Add(entries, c.mode, c.path, c.file)
            IN  Outcome(IF r.ok THEN "run" ELSE "failed", r.cpio, -1, <<>>)
      [] c.op = "extract" ->
            IF Len(c.paths) # 0 /\ Len(c.paths) # 2
            THEN Outcome("failed", entries, -1, <<>>)
            ELSE Outcome(IF Extract(entries, c.paths, c.ioOk) THEN "run" ELSE "failed",
                         entries, -1, <<>>)
      [] c.op = "ls" -> Exit(entries, 0, Ls(entries, c.path, c.recursive))

-----------------------------------------------------------------------------
(* Inputs *)

\* Bounds of the model
MaxCmds == 2    \* sub-commands in one session
MaxPad == 4     \* zero bytes between two concatenated archives
MaxIter == 12   \* iterations of the parse loop that are counted

\* the file does not exist (no byte string: ENOENT is not a byte)
Absent == <<"ENOENT">>

PathA == <<"a">>
PathAB == <<"a", "/", "b">>
PathABC == <<"a", "/", "b", "c">>
\* ab: starts with a, but is not inside a
Sibling == <<"a", "b">>
FooBar == <<"f", "o", "o", "/", "b", "a", "r">>
FooBarSlashed == <<"/">> \o FooBar \o <<"/">>
FooBarRooted == <<"/">> \o FooBar
NewLink == <<"n", "e", "w", "l", "i", "n", "k">>
DataTarget == <<"/", "d", "a", "t", "a", "/", "t", "a", "r", "g", "e", "t">>
Root == <<"/">>

DirEntry == CpioEntry(BitOr(493, S_IFDIR), 0, 0, 0, 0, <<>>)
HiEntry == CpioEntry(BitOr(420, S_IFREG), 0, 0, 0, 0, <<"h", "i">>)
YoEntry == CpioEntry(BitOr(384, S_IFREG), 1000, 1000, 0, 0, <<"y", "o", "!">>)
NullEntry == CpioEntry(BitOr(438, S_IFCHR), 0, 0, 1, 3, <<>>)

\* 0x7fffffff: eight significant hex digits
WideValue == 2147483647
\* a character device whose mode, uid, gid and device numbers fill their fields
WideEntry ==
    CpioEntry(WideValue - S_IFMT + S_IFCHR, WideValue, WideValue, WideValue, WideValue, <<>>)

\* a directory a with the files a/b and a/bc, and a file ab beside it
TreeABC ==
    Insert(Insert(Insert(Insert(NewCpio, PathA, DirEntry), PathAB, HiEntry),
                  PathABC, YoEntry), Sibling, HiEntry)
\* a device node and another a/b
TreeDev == Insert(Insert(NewCpio, FooBar, NullEntry), PathAB, YoEntry)
\* what `mkdir 755 .` leaves in an empty archive
TreeDot == Insert(NewCpio, Dot, DirEntry)
\* the same with a node w whose header fields are wide
WidePath == <<"w">>
TreeWide == Insert(TreeABC, WidePath, WideEntry)

\* the files <infile> may name
AddFiles ==
    { [kind |-> "reg", content |-> <<"h", "i">>, major |-> 0, minor |-> 0],
      [kind |-> "chr", content |-> <<>>, major |-> 1, minor |-> 3],
      [kind |-> "blk", content |-> <<>>, major |-> 7, minor |-> 0],
      [kind |-> "fifo", content |-> <<>>, major |-> 0, minor |-> 0],
      [kind |-> "missing", content |-> <<>>, major |-> 0, minor |-> 0] }

\* parse_mode("100755"): an octal mode argument that carries type bits
ModeWithType == BitOr(493, S_IFREG)

\* the sub-commands a session may be given
Cmds ==
    {TestCmd(r) : r \in {0, 1}}
    \cup {RestoreCmd(f) : f \in BOOLEAN}
    \cup {PatchCmd, CommentCmd, HelpCmd, BadCmd}
    \cup {BackupCmd(PathA, f) : f \in BOOLEAN}
    \cup {ExistsCmd(q) : q \in {NewLink, PathA, FooBarSlashed}}
    \cup {RemoveCmd(q, r) : q \in {PathA, PathAB, FooBar, FooBarSlashed}, r \in BOOLEAN}
    \cup {MoveCmd(f, t) : f \in {PathA, PathAB, FooBar, FooBarSlashed},
                          t \in {PathA, PathABC, FooBar, FooBarSlashed, Trailer}}
    \cup {ExtractCmd(q, ok) : q \in {<<>>, <<PathA>>, <<PathAB, PathA>>}, ok \in BOOLEAN}
    \cup {MakeDirCmd(493, d) : d \in {PathA, FooBar, FooBarSlashed, Dot, DotDot, Trailer}}
    \cup {MakeDirCmd(ModeWithType, NewLink)}
    \cup {LinkCmd(NewLink, DataTarget), LinkCmd(PathA, FooBar), LinkCmd(PathA, FooBarSlashed),
          LinkCmd(FooBarSlashed, PathAB), LinkCmd(FooBar, PathAB), LinkCmd(PathA, DotDot)}
    \cup {AddCmd(420, q, f) : q \in {FooBar, FooBarSlashed, FooBarRooted, PathAB, Dot},
                              f \in AddFiles}
    \cup {ListCmd(q, r) : q \in {Root, PathA}, r \in BOOLEAN}

\* SubSeq(s, 1, n) for a cut n >= 0, s itself for the cut -1
CutTo(s, n) == IF n < 0 THEN s ELSE SubSeq(s, 1, n)

\* s with the byte at offset at (0-based) replaced, s itself for at = -1
Poke(s, at, byte) ==
    IF at < 0 \/ at >= Len(s) THEN s ELSE [s EXCEPT ![at + 1] = byte]

\* the archive files a session may find
InitFiles ==
    { Absent, Dump(TreeWide), CutTo(Dump(TreeABC), 3), Poke(Dump(TreeABC), 0, "1") }

\* The buffers handed to load_from_data: the image of a first archive, padding,
\* the image of a second archive (second is <<>> or <<archive>>), one byte
\* replaced, cut short
Pads ==
    {Zeros(n) : n \in 0..MaxPad}
    \cup { <<"x", "y", "z", "!">>, Magic \o Zeros(2), <<"0", "7", BadByte, NUL>> }

ParseArchives == {NewCpio, TreeABC, TreeDev, TreeDot}

Pokes == { [at |-> -1, byte |-> NUL], [at |-> 3, byte |-> "1"], [at |-> 15, byte |-> "x"],
           [at |-> 99, byte |-> "f"], [at |-> 111, byte |-> BadByte],
           [at |-> 18, byte |-> "1"] }

Cuts == {-1, 3, 60, 110, 111, 113}

\* the name size a forged first header announces: <<>> leaves the header as
\* dump wrote it, ffffff92 is 2^32 - 110
NameSizes == { <<>>, <<"f", "f", "f", "f", "f", "f", "9", "2">> }

\* s with the name size field of its first header replaced
Forge(s, namesize) ==
    IF namesize = <<>> THEN s
    ELSE [k \in 1..Len(s) |-> IF k \in 95..102 THEN namesize[k - 94] ELSE s[k]]

ParseInputs ==
    [first : ParseArchives, pad : Pads, second : {<<>>} \cup {<<a>> : a \in ParseArchives},
     poke : Pokes, cut : Cuts, namesize : NameSizes, build : Builds]

Buffer(in) ==
    CutTo(Poke(Forge(Dump(in.first) \o in.pad
                       \o (IF in.second = <<>> THEN <<>> ELSE Dump(in.second[1])),
                     in.namesize),
               in.poke.at, in.poke.byte),
          in.cut)

-----------------------------------------------------------------------------
(* The session: cpio_commands *)

Init ==
    /\ file \in InitFiles
    /\ input = [file |-> file]
    /\ cpio = NewCpio
    /\ pc = "start"
    /\ pos = 0
    /\ oob = FALSE
    /\ status = -1
    /\ i = 0
    /\ cmd = NoCmd
    /\ prev = NewCpio
    /\ dumps = 0
    /\ stdout = <<>>

\* The archive is loaded from the file if it exists, else starts empty
Start ==
    /\ pc = "start"
    /\ \E ubMatch \in BOOLEAN, build \in Builds :
          LET r == IF file = Absent THEN ParseResult("ok", 0, NewCpio, FALSE)
                   ELSE load_from_data(file, ubMatch, build)
          IN  /\ pc' = IF r.st = "ok" THEN "run" ELSE IF r.st = "err" THEN "failed" ELSE "panic"
              /\ cpio' = IF r.st = "ok" THEN r.cpio ELSE NewCpio
              /\ pos' = r.pos
              /\ oob' = r.oob
    /\ prev' = cpio'
    /\ UNCHANGED <<file, status, i, cmd, dumps, stdout, input>>

\* The next sub-command of argv is parsed and dispatched
Step ==
    /\ pc = "run"
    /\ i < MaxCmds
    /\ \E c \in Cmds :
          LET r == Dispatch(cpio, c)
          IN  /\ cmd' = c
              /\ pc' = r.pc
              /\ cpio' = r.cpio
              /\ status' = r.status
              /\ stdout' = r.stdout
    /\ prev' = cpio
    /\ i' = i + 1
    /\ UNCHANGED <<file, pos, oob, dumps, input>>

\* No sub-command is left: the archive is dumped.  created: File::create
\* succeeds.
Finish ==
    /\ pc = "run"
    /\ dumps' = dumps + 1
    /\ \E created \in BOOLEAN :
          /\ pc' = IF created THEN "done" ELSE "failed"
          /\ file' = IF created THEN Dump(cpio) ELSE file
    /\ UNCHANGED <<cpio, pos, oob, status, i, cmd, prev, stdout, input>>

Next == Start \/ Step \/ Finish

Spec == Init /\ [][Next]_vars

-----------------------------------------------------------------------------
(* The parse loop of load_from_data, one iteration at a time *)

ParseInit ==
    /\ input \in ParseInputs
    /\ file = Buffer(input)
    /\ cpio = NewCpio
    /\ pc = "parse"
    /\ pos = 0
    /\ oob = FALSE
    /\ status = -1
    /\ i = 0
    /\ cmd = NoCmd
    /\ prev = NewCpio
    /\ dumps = 0
    /\ stdout = <<>>

\* while pos < data.len() { ... }
ParseStep ==
    /\ pc = "parse"
    /\ pos < Len(file)
    /\ \E ubMatch \in BOOLEAN :
          LET r == ParseIter(file, pos, cpio, ubMatch, input.build)
          IN  /\ pc' = IF r.st = "loop" THEN "parse" ELSE r.st
              /\ pos' = r.pos
              /\ cpio' = r.cpio
              /\ oob' = r.oob
    /\ i' = IF i < MaxIter THEN i + 1 ELSE i
    /\ UNCHANGED <<file, status, cmd, prev, dumps, stdout, input>>

\* the loop condition fails: Ok(cpio)
ParseEnd ==
    /\ pc = "parse"
    /\ pos >= Len(file)
    /\ pc' = "ok"
    /\ UNCHANGED <<file, cpio, pos, oob, status, i, cmd, prev, dumps, stdout, input>>

ParseNext == ParseStep \/ ParseEnd

SpecParse == ParseInit /\ [][ParseNext]_vars

-----------------------------------------------------------------------------
(* Properties *)

Reserved == {Dot, DotDot, Trailer}

IsSymlink(entry) == BitAnd(entry.mode, S_IFMT) = S_IFLNK

\* C1: round trip.  Parsing the bytes dump produces for the archive of any
\* reachable state yields Ok with exactly the same path -> entry pairs.
C1_RoundTrip ==
    pc \in {"run", "done"} =>
        \A build \in Builds :
            LET r == load_from_data(Dump(cpio), FALSE, build)
            IN  r.st = "ok" /\ r.cpio = cpio

\* C2: parse bounds safety.  load_from_data never reads past the end of the
\* buffer and never aborts on an index out of range; a buffer that is too short
\* for what its headers announce ends in an Err.
C2_ParseBoundsSafe == ~oob /\ pc # "panic"

\* C3 as stated: add, mkdir, ln and mv given "/foo/bar/" end as they do given
\* "foo/bar", with the same archive.
C3_SlashedAsPlain ==
    /\ (cmd.op = "mkdir" /\ cmd.dir = FooBarSlashed) =>
            cpio = Mkdir(prev, cmd.mode, FooBar)
    /\ (cmd.op = "ln" /\ cmd.dst = FooBarSlashed) => cpio = Ln(prev, cmd.src, FooBar)
    /\ (cmd.op = "ln" /\ cmd.src = FooBarSlashed) => cpio = Ln(prev, FooBar, cmd.dst)
    /\ (cmd.op = "mv" /\ cmd.from = FooBarSlashed) =>
            /\ cpio = Mv(prev, FooBar, cmd.to).cpio
            /\ (pc = "failed" /\ dumps = 0) = ~Mv(prev, FooBar, cmd.to).ok
    /\ (cmd.op = "mv" /\ cmd.to = FooBarSlashed) =>
            /\ cpio = Mv(prev, cmd.from, FooBar).cpio
            /\ (pc = "failed" /\ dumps = 0) = ~Mv(prev, cmd.from, FooBar).ok
    /\ (cmd.op = "add" /\ cmd.path = FooBarSlashed) =>
            /\ cpio = Add(prev, cmd.mode, FooBar, cmd.file).cpio
            /\ (pc = "failed" /\ dumps = 0) = ~Add(prev, cmd.mode, FooBar, cmd.file).ok

\* C3 amended: mkdir, ln and mv given "/foo/bar/" end as they do given "foo/bar",
\* with the same archive, and what they store is stored under the key "foo/bar";
\* add rejects "/foo/bar/" (the path ends with a slash) and leaves the archive
\* as it was, and given "/foo/bar" it ends as it does given "foo/bar".
C3_NormalizedPaths ==
    /\ (cmd.op = "mkdir" /\ cmd.dir = FooBarSlashed) =>
            /\ cpio = Mkdir(prev, cmd.mode, FooBar)
            /\ FooBar \in DOMAIN cpio /\ FooBarSlashed \notin DOMAIN cpio
    /\ (cmd.op = "ln" /\ cmd.dst = FooBarSlashed) =>
            /\ cpio = Ln(prev, cmd.src, FooBar)
            /\ FooBar \in DOMAIN cpio /\ FooBarSlashed \notin DOMAIN cpio
    /\ (cmd.op = "ln" /\ cmd.src = FooBarSlashed) =>
            /\ cpio = Ln(prev, FooBar, cmd.dst)
            /\ cpio[norm_path(cmd.dst)].data = FooBar
    /\ (cmd.op = "mv" /\ cmd.from = FooBarSlashed) =>
            /\ cpio = Mv(prev, FooBar, cmd.to).cpio
            /\ (pc = "failed" /\ dumps = 0) = ~Mv(prev, FooBar, cmd.to).ok
            /\ (pc = "failed" /\ dumps = 0) = (FooBar \notin DOMAIN prev)
    /\ (cmd.op = "mv" /\ cmd.to = FooBarSlashed) =>
            /\ cpio = Mv(prev, cmd.from, FooBar).cpio
            /\ (pc = "failed" /\ dumps = 0) = ~Mv(prev, cmd.from, FooBar).ok
            /\ FooBarSlashed \notin DOMAIN cpio
    /\ (cmd.op = "add" /\ cmd.path = FooBarSlashed) =>
            cpio = prev /\ pc = "failed" /\ dumps = 0
    /\ (cmd.op = "add" /\ cmd.path = FooBarRooted) =>
            /\ cpio = Add(prev, cmd.mode, FooBar, cmd.file).cpio
            /\ (pc = "failed" /\ dumps = 0) = ~Add(prev, cmd.mode, FooBar, cmd.file).ok

\* mv "/foo/bar/" a/bc has moved the entry stored under foo/bar
C3_Witness ==
    /\ cmd = MoveCmd(FooBarSlashed, PathABC)
    /\ pc = "run"
    /\ FooBar \in DOMAIN prev
    /\ FooBar \notin DOMAIN cpio
    /\ PathABC \in DOMAIN cpio

\* C4: after the sub-command `ln newlink /data/target` the archive holds a
\* symlink under the key newlink (so that `exists newlink` exits 0 and
\* `ls -r /` lists it).
C4_LnCreatesNewlink ==
    cmd = LinkCmd(NewLink, DataTarget) =>
        /\ NewLink \in DOMAIN cpio
        /\ IsSymlink(cpio[NewLink])
        /\ Dispatch(cpio, ExistsCmd(NewLink)).status = 0
        /\ \E k \in 1..Len(Ls(cpio, Root, TRUE)) : Ls(cpio, Root, TRUE)[k].name = NewLink

\* C5: session write-back.  Every step of a session starts where the session
\* is still going (nothing runs after a failure, an exit or the dump); each
\* sub-command is the next of argv; exists, ls and test end the session with
\* a status and without a dump; dump is called at most once, from a session
\* whose sub-commands all completed, and the file holds other bytes than at the
\* start only after it; after a successful session the file is the dump of
\* the archive.
C5_StateInv ==
    /\ dumps <= 1
    /\ dumps = 0 => file = input.file
    /\ pc \in {"exit", "panic", "start", "run"} => dumps = 0
    /\ pc = "done" => dumps = 1 /\ file = Dump(cpio)
    /\ pc = "exit" => status >= 0
    /\ (cmd.op \in {"exists", "ls", "test", "help"}) => pc = "exit"

C5_StepInv ==
    /\ pc \in {"start", "run"}
    /\ i' \in {i, i + 1}
    /\ i' = i + 1 => pc = "run" /\ dumps' = 0 /\ file' = file
    /\ dumps' # dumps => pc = "run" /\ i' = i /\ cpio' = cpio /\ pc' \in {"done", "failed"}

C5_SessionWriteBack == []C5_StateInv /\ [][C5_StepInv]_vars

\* a session of two sub-commands has been dumped
C5_Witness == pc = "done" /\ i = 2 /\ dumps = 1 /\ file # input.file

\* the input of load_from_data is two archive images with padding between
IsConcat ==
    input.second # <<>> /\ input.poke.at = -1 /\ input.cut = -1 /\ input.namesize = <<>>

NoReserved(entries) == DOMAIN entries \cap Reserved = {}

ContainsMagic(s) == \E k \in 0..(Len(s) - 6) : SubSeq(s, k + 1, k + 6) = Magic

\* the entries of both archives, those of the second kept for a common path
Merged(first, second) ==
    [k \in DOMAIN first \cup DOMAIN second |->
        IF k \in DOMAIN second THEN second[k] ELSE first[k]]

\* C6 as stated: an archive image, any padding bytes and a second archive image
\* parse to the entries of both, the second archive's kept for a common path.
C6_ConcatAnyPadding ==
    (IsConcat /\ NoReserved(input.first) /\ NoReserved(input.second[1]) /\ pc # "parse") =>
        pc = "ok" /\ cpio = Merged(input.first, input.second[1])

\* C6 amended: the same when the number of padding bytes is a multiple of 4
\* and the padding holds no occurrence of the magic 070701.
C6_ConcatAlignedPadding ==
    (/\ IsConcat /\ NoReserved(input.first) /\ NoReserved(input.second[1])
     /\ Len(input.pad) % 4 = 0
     /\ ~ContainsMagic(input.pad)
     /\ pc # "parse") =>
        pc = "ok" /\ cpio = Merged(input.first, input.second[1])

\* two archives with a common path, garbage between them, parsed to the end
C6_Witness ==
    /\ IsConcat /\ pc = "ok"
    /\ input.first = TreeABC /\ input.second = <<TreeDev>>
    /\ input.pad = <<"x", "y", "z", "!">>
    /\ cpio[PathAB] = YoEntry /\ PathABC \in DOMAIN cpio /\ FooBar \in DOMAIN cpio

\* C7 as stated: with a, a/b and a/bc in the archive, rm -r a deletes a and
\* a/b and leaves a/bc as it was.
C7_RecursiveRmLeavesABC ==
    (cmd = RemoveCmd(PathA, TRUE) /\ {PathA, PathAB, PathABC} \subseteq DOMAIN prev) =>
        /\ PathA \notin DOMAIN cpio
        /\ PathAB \notin DOMAIN cpio
        /\ PathABC \in DOMAIN cpio
        /\ cpio[PathABC] = prev[PathABC]

\* C7 amended: with a, a/b and a/bc in the archive, rm -r a deletes a, a/b and
\* a/bc (a/bc starts with "a/"); an entry ab, which starts with "a" but not
\* with "a/", is left as it was.
C7_RecursiveRmBoundary ==
    (cmd = RemoveCmd(PathA, TRUE) /\ {PathA, PathAB, PathABC} \subseteq DOMAIN prev) =>
        /\ PathA \notin DOMAIN cpio
        /\ PathAB \notin DOMAIN cpio
        /\ PathABC \notin DOMAIN cpio
        /\ Sibling \in DOMAIN prev => Sibling \in DOMAIN cpio /\ cpio[Sibling] = prev[Sibling]

C7_Witness ==
    /\ cmd = RemoveCmd(PathA, TRUE) /\ pc = "run"
    /\ {PathA, PathAB, PathABC, Sibling} \subseteq DOMAIN prev
    /\ DOMAIN cpio = DOMAIN prev \ {PathA, PathAB, PathABC}

\* C8: rm removes the entry keyed by the normalized path and, when recursive,
\* the entries whose key starts with that path and a slash; all other
\* entries keep their key and fields; rm never fails.
C8_RmFrame ==
    cmd.op = "rm" =>
        LET n == norm_path(cmd.path)
            gone == IF cmd.recursive
                    THEN {k \in DOMAIN prev : k = n \/ StartsWith(k, n \o <<"/">>)}
                    ELSE {k \in DOMAIN prev : k = n}
        IN  /\ DOMAIN cpio = DOMAIN prev \ gone
            /\ \A k \in DOMAIN cpio : cpio[k] = prev[k]
            /\ dumps = 0 => pc = "run"

\* rm a without -r has removed a alone, its children stay
C8_Witness ==
    /\ cmd = RemoveCmd(PathA, FALSE) /\ pc = "run"
    /\ PathA \in DOMAIN prev /\ PathA \notin DOMAIN cpio
    /\ PathAB \in DOMAIN cpio /\ PathABC \in DOMAIN cpio /\ Sibling \in DOMAIN cpio

\* C9: mv fails when the normalized source is no key and then leaves the
\* archive as it was; otherwise the entry is stored unchanged under the
\* normalized destination, replacing what was there, the source key is gone
\* unless it is the destination, and all other entries are unchanged.
C9_Move ==
    cmd.op = "mv" =>
        LET nf == norm_path(cmd.from)
            nt == norm_path(cmd.to)
        IN  IF nf \notin DOMAIN prev
            THEN pc = "failed" /\ dumps = 0 /\ cpio = prev
            ELSE /\ dumps = 0 => pc = "run"
                 /\ DOMAIN cpio = (DOMAIN prev \ {nf}) \cup {nt}
                 /\ cpio[nt] = prev[nf]
                 /\ \A k \in DOMAIN prev \ {nf, nt} : cpio[k] = prev[k]

\* mv a/b a/bc has replaced the entry that was stored under a/bc
C9_Witness ==
    /\ cmd = MoveCmd(PathAB, PathABC) /\ pc = "run"
    /\ PathABC \in DOMAIN prev /\ prev[PathABC] # prev[PathAB]
    /\ cpio[PathABC] = prev[PathAB] /\ PathAB \notin DOMAIN cpio

\* C10: no entry is ever stored under ".", ".." or "TRAILER!!!".
C10_NoReservedKeys == NoReserved(cpio)

\* the five entry types extract_entry materializes
KnownTypes == {S_IFDIR, S_IFREG, S_IFLNK, S_IFBLK, S_IFCHR}

\* C11: entry types.  In every archive reached by parsing a buffer and applying
\* entry operations, the type bits (mode & S_IFMT) of every stored entry are
\* those of a directory, a regular file, a symlink, a block device or a
\* character device.
C11_KnownEntryTypes ==
    \A k \in DOMAIN cpio : BitAnd(cpio[k].mode, S_IFMT) \in KnownTypes

\* Reading an image back record by record, by the layout of the newc format
\* alone: the value of the k-th field of the header at offset at, -1 when the
\* field is not 8 hex digits of a value below 2^31
FieldValue(bytes, at, k) ==
    LET f == HdrField(bytes, at, k)
        r == x8u(f)
    IN  IF r.ok /\ r.v >= 0 THEN r.v ELSE -1

\* the least multiple of 4 that is at least x
LeastMultipleOf4(x) == CHOOSE m \in x..(x + 3) : m % 4 = 0

\* The record whose header starts at offset at (at + 110 <= Len(bytes)): the
\* name of namesize - 1 bytes right after the 110 bytes of the header, the
\* payload of filesize bytes at the next multiple of 4, the next record at the
\* multiple of 4 after that
RecordAt(bytes, at) ==
    LET namesize == FieldValue(bytes, at, 11)
        filesize == FieldValue(bytes, at, 6)
        nameEnd == at + 110 + namesize
        dataAt == LeastMultipleOf4(nameEnd)
        dataEnd == dataAt + filesize
        fits == namesize >= 1 /\ filesize >= 0 /\ LeastMultipleOf4(dataEnd) <= Len(bytes)
    IN  [at |-> at, fits |-> fits,
         namesize |-> namesize, filesize |-> filesize,
         name |-> IF fits THEN SubSeq(bytes, at + 111, nameEnd - 1) ELSE <<>>,
         nameEnd |-> nameEnd, dataAt |-> dataAt, dataEnd |-> dataEnd,
         data |-> IF fits THEN SubSeq(bytes, dataAt + 1, dataEnd) ELSE <<>>,
         next |-> IF fits THEN LeastMultipleOf4(dataEnd) ELSE Len(bytes)]

\* the records of an image from offset at on
RECURSIVE Records(_, _)
Records(bytes, at) ==
    IF at + 110 > Len(bytes) THEN <<>>
    ELSE LET r == RecordAt(bytes, at) IN <<r>> \o Records(bytes, r.next)

\* C12: serialization order and inodes.  The file dump writes for an archive
\* of N entries holds N + 1 records; the first N carry the keys of the archive
\* in strictly ascending byte order, each with the payload of its entry, the
\* k-th (from 0) with inode 300000 + k; the last is TRAILER!!! with inode
\* 300000 + N.  This holds whatever the order in which the entries were parsed
\* or inserted.
C12_DumpOrderAndInodes ==
    pc = "done" =>
        LET recs == Records(file, 0)
            N == Cardinality(DOMAIN cpio)
        IN  /\ Len(recs) = N + 1
            /\ \A k \in 1..N :
                  /\ recs[k].fits
                  /\ recs[k].name \in DOMAIN cpio
                  /\ recs[k].data = cpio[recs[k].name].data
                  /\ FieldValue(file, recs[k].at, 0) = 300000 + (k - 1)
            /\ \A k \in 1..(N - 1) : StrLess(recs[k].name, recs[k + 1].name)
            /\ recs[N + 1].name = Trailer
            /\ FieldValue(file, recs[N + 1].at, 0) = 300000 + N

\* an archive written back after mkdir foo/bar and then mkdir a: the key
\* inserted last is written first
C12_Witness ==
    /\ pc = "done"
    /\ cmd = MakeDirCmd(493, PathA)
    /\ FooBar \in DOMAIN prev /\ PathA \notin DOMAIN prev
    /\ {PathA, FooBar} \subseteq DOMAIN cpio

LowerHex == {HexChars[k] : k \in 1..16}

C14_DumpAlignment ==
    pc = "done" =>
        LET recs == Records(file, 0)
            N == Cardinality(DOMAIN cpio)
            keys == SortedKeys(DOMAIN cpio)
        IN  /\ Len(recs) = N + 1
            /\ \A k \in 1..(N + 1) :
                  LET r == recs[k]
                  IN  /\ r.fits
                      /\ r.at % 4 = 0
                      /\ r.at = (IF k = 1 THEN 0 ELSE recs[k - 1].next)
                      /\ SubSeq(file, r.at + 1, r.at + 6) = Magic
                      /\ r.name = (IF k <= N THEN keys[k] ELSE Trailer)
                      /\ file[r.nameEnd] = NUL
                      /\ r.dataAt % 4 = 0 /\ r.dataAt >= r.nameEnd /\ r.dataAt < r.nameEnd + 4
                      /\ \A j \in (r.nameEnd + 1)..r.dataAt : file[j] = NUL
                      /\ r.data = (IF k <= N THEN cpio[r.name].data ELSE <<>>)
                      /\ r.next % 4 = 0 /\ r.next >= r.dataEnd /\ r.next < r.dataEnd + 4
                      /\ \A j \in (r.dataEnd + 1)..r.next : file[j] = NUL
            /\ recs[N + 1].next = Len(file)

\* a file written back with a name that ends on a multiple of 4, a name that
\* does not, and a payload that needs padding
C14_Witness ==
    /\ pc = "done"
    /\ LET recs == Records(file, 0)
       IN  /\ \E k \in 1..Len(recs) : recs[k].fits /\ recs[k].nameEnd % 4 = 0
           /\ \E k \in 1..Len(recs) : recs[k].fits /\ recs[k].nameEnd % 4 # 0
           /\ \E k \in 1..Len(recs) :
                 recs[k].fits /\ recs[k].filesize > 0 /\ recs[k].dataEnd % 4 # 0

\* C15: parse termination.  Every iteration of the loop of load_from_data that
\* does not end the loop leaves the cursor strictly greater than it found it
\* (so that the loop ends on every finite buffer).
C15_CursorAdvances ==
    [][(pc = "parse" /\ pc' = "parse") => pos' > pos]_vars

====
